---------------------------- MODULE Spec2Model ----------------------------
(***************************************************************************)
(* A model of go-outline (src/main.go): one run of main, from flag         *)
(* parsing to the outline printed on standard output.                      *)
(*                                                                         *)
(* The content of a Go source file is kept in structured form (the bytes   *)
(* before the package clause, the package clause, the top-level items, the *)
(* bytes after the last item); ParseFile lays the items out as text and    *)
(* gives every syntax node the position go/parser gives it.                *)
(***************************************************************************)
EXTENDS Integers, Sequences, FiniteSets, TLC

---------------------------------------------------------------------------
(* Bounds of the inputs.                                                   *)

MaxDecls == 2
MaxSpecs == 2
MaxNames == 2

---------------------------------------------------------------------------
(* Flags (main.go:26-30).  -f is the same path in every run.               *)

file == "a.go"
otherPath == "b.go"

(* token.NewFileSet(): the first file added has base 1, so the byte at     *)
(* offset 0 has token.Pos 1; token.NoPos is 0.                             *)
FileBase == 1
NoPos == 0

---------------------------------------------------------------------------
(* Source text.                                                            *)

NoRecv == [present |-> FALSE, list |-> <<>>]

FuncItem(name, recv) ==
    [k |-> "func", name |-> name, recv |-> recv, tok |-> "", specs |-> <<>>]
GenItem(tok, specs) ==
    [k |-> "gen", name |-> "", recv |-> NoRecv, tok |-> tok, specs |-> specs]
BadItem ==
    [k |-> "bad", name |-> "", recv |-> NoRecv, tok |-> "", specs |-> <<>>]

(* The content of a file that has no bytes: what parser.ParseFile is given *)
(* when the overlay has no entry for the path (fc is a nil []byte).        *)
EmptySrc == [lead |-> 0, pkg |-> FALSE, name |-> "", items |-> <<>>, trail |-> 0]

RECURSIVE JoinLen(_)
(* Length of the strings of ss written with ", " between them. *)
JoinLen(ss) ==
    IF ss = <<>> THEN 0
    ELSE IF Len(ss) = 1 THEN Len(ss[1])
    ELSE Len(ss[1]) + 2 + JoinLen(Tail(ss))

TypeText(f) == IF f.star THEN "*" \o f.base ELSE f.base
FieldText(f) == IF f.name = "" THEN TypeText(f) ELSE f.name \o " " \o TypeText(f)
RecvLen(recv) ==
    IF ~recv.present THEN 0
    ELSE 1 + JoinLen([n \in 1..Len(recv.list) |-> FieldText(recv.list[n])]) + 2

(* "func " recv name "() {}" *)
FuncLen(it) == 5 + RecvLen(it.recv) + Len(it.name) + 5

SpecLen(sp) ==
    CASE sp.k = "import" -> Len(sp.label)
      [] sp.k = "type" -> Len(sp.label) + 4
      [] OTHER -> JoinLen(sp.names) + 4

RECURSIVE SpecsLen(_)
(* every spec on a line of its own: tab, spec, newline *)
SpecsLen(specs) ==
    IF specs = <<>> THEN 0 ELSE 1 + SpecLen(specs[1]) + 1 + SpecsLen(Tail(specs))

(* tok " (\n" specs ")" *)
GenLen(it) == Len(it.tok) + 3 + SpecsLen(it.specs) + 1

ItemLen(it) ==
    CASE it.k = "func" -> FuncLen(it)
      [] it.k = "gen" -> GenLen(it)
      [] OTHER -> 1

RECURSIVE ItemsLen(_)
(* every item starts on a new line: newline, item *)
ItemsLen(items) ==
    IF items = <<>> THEN 0 ELSE 1 + ItemLen(items[1]) + ItemsLen(Tail(items))

(* "package " name *)
ClauseLen(src) == IF src.pkg THEN 8 + Len(src.name) ELSE 0

(* Number of bytes of the content: lead bytes (comments, blank lines), the *)
(* package clause, the items, trail bytes (a final newline, comments).     *)
Size(src) == src.lead + ClauseLen(src) + ItemsLen(src.items) + src.trail


---------------------------------------------------------------------------
(* go/parser and go/ast, as main uses them.                                *)

NilFile == [nil |-> TRUE, Name |-> "", NamePos |-> NoPos, Package |-> NoPos, Decls |-> <<>>]

(* What ParseFile returns for bytes that do not start a Go file: a valid   *)
(* but empty *ast.File, Name an empty identifier without position.         *)
EmptyFile ==
    [nil |-> FALSE, Name |-> "", NamePos |-> NoPos, Package |-> NoPos, Decls |-> <<>>]

NoSpecs == <<>>

RECURSIVE IdentNodes(_, _)
(* The identifiers of a value spec, the first at pos, ", " between them. *)
IdentNodes(names, pos) ==
    IF names = <<>> THEN <<>>
    ELSE <<[Name |-> names[1], NamePos |-> pos]>>
         \o IdentNodes(Tail(names), pos + Len(names[1]) + 2)

SpecNode(sp, pos) ==
    CASE sp.k = "import" ->
           [k |-> "ImportSpec", Label |-> sp.label, Names |-> <<>>,
            Pos |-> pos, End |-> pos + Len(sp.label)]
      [] sp.k = "type" ->
           [k |-> "TypeSpec", Label |-> sp.label, Names |-> <<>>,
            Pos |-> pos, End |-> pos + SpecLen(sp)]
      [] OTHER ->
           [k |-> "ValueSpec", Label |-> "", Names |-> IdentNodes(sp.names, pos),
            Pos |-> pos, End |-> pos + SpecLen(sp)]

RECURSIVE SpecNodes(_, _)
(* pos is the offset of the line of the first spec; the spec follows a tab *)
SpecNodes(specs, pos) ==
    IF specs = <<>> THEN <<>>
    ELSE <<SpecNode(specs[1], pos + 1)>>
         \o SpecNodes(Tail(specs), pos + 1 + SpecLen(specs[1]) + 1)

FieldNode(f) ==
    [Names |-> IF f.name = "" THEN <<>> ELSE <<f.name>>,
     Type |-> [star |-> f.star, base |-> f.base]]

RecvNode(recv) ==
    [nil |-> ~recv.present,
     List |-> [n \in 1..Len(recv.list) |-> FieldNode(recv.list[n])]]

DeclNode(it, pos) ==
    CASE it.k = "func" ->
           [k |-> "FuncDecl", Name |-> it.name, Recv |-> RecvNode(it.recv),
            Tok |-> "func", Specs |-> NoSpecs, Pos |-> pos, End |-> pos + FuncLen(it)]
      [] it.k = "gen" ->
           [k |-> "GenDecl", Name |-> "", Recv |-> RecvNode(NoRecv),
            Tok |-> it.tok, Specs |-> SpecNodes(it.specs, pos + Len(it.tok) + 3),
            Pos |-> pos, End |-> pos + GenLen(it)]
      [] OTHER ->
           [k |-> "BadDecl", Name |-> "", Recv |-> RecvNode(NoRecv),
            Tok |-> "", Specs |-> NoSpecs, Pos |-> pos, End |-> pos + 1]

RECURSIVE DeclNodes(_, _)
(* pos is the position of the newline before the first item *)
DeclNodes(items, pos) ==
    IF items = <<>> THEN <<>>
    ELSE <<DeclNode(items[1], pos + 1)>>
         \o DeclNodes(Tail(items), pos + 1 + ItemLen(items[1]))

IsImport(it) == it.k = "gen" /\ it.tok = "import"

RECURSIVE ImportPrefix(_)
(* The import declarations a file starts with. *)
ImportPrefix(items) ==
    IF items = <<>> \/ ~IsImport(items[1]) THEN <<>>
    ELSE <<items[1]>> \o ImportPrefix(Tail(items))

(* parser.ImportsOnly stops after the import declarations. *)
Parsed(items, mode) == IF mode = "ImportsOnly" THEN ImportPrefix(items) ELSE items

(* parser.ParseFile(fset, file, src, mode).  src is nil (the file is read  *)
(* from the filesystem) or the bytes to parse.  A file that cannot be read *)
(* gives a nil tree; bytes without a package clause give the empty file;   *)
(* otherwise the tree holds what was parsed, a BadDecl for each broken     *)
(* top-level construct, and err says whether there was any.                *)
ParseFile(src, mode, fs) ==
    LET fromDisk == src.isNil
        readable == IF fromDisk THEN fs.exists ELSE TRUE
        text     == IF fromDisk THEN fs.content ELSE src.bytes
        items    == Parsed(text.items, mode)
    IN  IF ~readable THEN [ast |-> NilFile, err |-> TRUE, fsRead |-> fromDisk]
        ELSE IF ~text.pkg THEN [ast |-> EmptyFile, err |-> TRUE, fsRead |-> fromDisk]
        ELSE [ast |-> [nil |-> FALSE, Name |-> text.name,
                       NamePos |-> FileBase + text.lead + 8,
                       Package |-> FileBase + text.lead,
                       Decls |-> DeclNodes(items, FileBase + text.lead + ClauseLen(text))],
              err |-> \E n \in 1..Len(items) : items[n].k = "bad",
              fsRead |-> fromDisk]

(* ast.File.Pos: the position of the package keyword. *)
FilePos(f) == f.Package

(* A variant of ast.File.End that ignores the declarations. *)
FileEndOfName(f) == f.NamePos + Len(f.Name)

(* ast.File.End: the end of the last declaration, of the package name when *)
(* there is none.                                                          *)
FileEnd(f) ==
    IF Len(f.Decls) > 0 THEN f.Decls[Len(f.Decls)].End
    ELSE f.NamePos + Len(f.Name)

(* buildutil.ParseOverlayArchive(os.Stdin): the mapping from path to       *)
(* content, or nil and an error for a malformed archive.                   *)
NilArchive == [p \in {} |-> EmptySrc]
ParseOverlayArchive(in) ==
    IF in.corrupt THEN [archive |-> NilArchive, err |-> TRUE]
    ELSE [archive |-> in.entries, err |-> FALSE]

(* format.Node on a receiver type expression. *)
FormatNode(type) == IF type.star THEN "*" \o type.base ELSE type.base


---------------------------------------------------------------------------
(* The program.                                                            *)

VARIABLES
    modified,      \* -modified
    importsOnly,   \* -imports-only
    stdin,         \* the overlay archive on standard input
    disk,          \* the file -f names, on the filesystem
    pc,            \* where main is
    archive,       \* main.go:44
    fc, ok,        \* main.go:48
    fileAst,       \* main.go:40
    err,           \* main.go:41
    errModified,   \* the err of main.go:44, which main.go:52 assigns
    declarations,  \* main.go:61
    i, j, k,       \* the indices of the loops of main.go:63, 79 and 101
    stdout,        \* what was printed on standard output
    stderr,        \* the lines written to standard error
    exitStatus,    \* <<>> while the process runs, then <<status>>
    fsReads        \* how often the filesystem was read for -f

vars == <<modified, importsOnly, stdin, disk, pc, archive, fc, ok, fileAst, err,
          errModified, declarations, i, j, k, stdout, stderr, exitStatus, fsReads>>

Running == <<>>
(* main returns: status 0.  A Go panic ends the process with status 2.     *)
ExitOK == 0
ExitPanic == 2

NoChildren == <<>>

Declaration(label, type, receiverType, start, end, children) ==
    [Label |-> label, Type |-> type, ReceiverType |-> receiverType,
     Start |-> start, End |-> end, Children |-> children]

(* A variant of append that puts the new element first. *)
appendFront(s, e) == <<e>> \o s

(* append(declarations, Declaration{...}) (main.go:70, 82, 92, 106) *)
append(s, e) == Append(s, e)

(* A variant of the range that stops after the first identifier. *)
rangeFirstName(spec) == SubSeq(spec.Names, 1, 1)

(* range spec.Names (main.go:101) *)
rangeNames(spec) == spec.Names

(* reportError (main.go:149-151): one line on standard error, and return.  *)
reportError(out, msg) == Append(out, "error: " \o msg)

(* A variant of getReceiverType that renders the whole receiver field,     *)
(* the name of the receiver variable with the type.                        *)
getReceiverField(decl) ==
    IF decl.Recv.nil THEN [text |-> "", failed |-> FALSE, panics |-> FALSE]
    ELSE IF Len(decl.Recv.List) = 0 THEN [text |-> "", failed |-> FALSE, panics |-> TRUE]
    ELSE LET f == decl.Recv.List[1]
         IN  [text |-> (IF f.Names = <<>> THEN "" ELSE f.Names[1] \o " ")
                          \o FormatNode(f.Type),
              failed |-> FALSE, panics |-> FALSE]

(* getReceiverType (main.go:136-147).  Indexing the empty receiver list    *)
(* of `func () F()`, which go/parser accepts, panics.  format.Node writes  *)
(* an expression into a bytes.Buffer and does not fail on one.             *)
getReceiverType(decl) ==
    IF decl.Recv.nil THEN [text |-> "", failed |-> FALSE, panics |-> FALSE]
    ELSE IF Len(decl.Recv.List) = 0 THEN [text |-> "", failed |-> FALSE, panics |-> TRUE]
    ELSE [text |-> FormatNode(decl.Recv.List[1].Type), failed |-> FALSE, panics |-> FALSE]

ParserMode == IF importsOnly THEN "ImportsOnly" ELSE "ParseComments"

NilSrc == [isNil |-> TRUE, bytes |-> EmptySrc]
Bytes(b) == [isNil |-> FALSE, bytes |-> b]

Panic ==
    /\ pc' = "panic"
    /\ exitStatus' = <<ExitPanic>>

(* main.go:33-43 *)
Start ==
    /\ pc = "start"
    /\ pc' = IF modified THEN "archive" ELSE "parseDisk"
    /\ UNCHANGED <<modified, importsOnly, stdin, disk, archive, fc, ok, fileAst, err,
                   errModified, declarations, i, j, k, stdout, stderr, exitStatus,
                   fsReads>>

(* main.go:44-47 *)
ReadArchive ==
    /\ pc = "archive"
    /\ LET r == ParseOverlayArchive(stdin)
       IN  /\ archive' = r.archive
           /\ errModified' = r.err
           /\ stderr' = IF r.err
                        THEN reportError(stderr, "failed to parse -modified archive")
                        ELSE stderr
    /\ pc' = "lookup"
    /\ UNCHANGED <<modified, importsOnly, stdin, disk, fc, ok, fileAst, err,
                   declarations, i, j, k, stdout, exitStatus, fsReads>>

(* main.go:48-51 *)
Lookup ==
    /\ pc = "lookup"
    /\ ok' = (file \in DOMAIN archive)
    /\ fc' = IF file \in DOMAIN archive THEN Bytes(archive[file]) ELSE Bytes(EmptySrc)
    /\ stderr' = IF file \in DOMAIN archive THEN stderr
                 ELSE reportError(stderr, "couldn't find " \o file \o " in archive")
    /\ pc' = "parseModified"
    /\ UNCHANGED <<modified, importsOnly, stdin, disk, archive, fileAst, err,
                   errModified, declarations, i, j, k, stdout, exitStatus, fsReads>>

(* A variant of main.go:52 that passes nil as main.go:54 does, so that     *)
(* ParseFile reads the file itself.                                        *)
ParseModifiedFromDisk ==
    /\ pc = "parseModified"
    /\ LET r == ParseFile(NilSrc, ParserMode, disk)
       IN  /\ fileAst' = r.ast
           /\ errModified' = r.err
           /\ fsReads' = IF r.fsRead THEN fsReads + 1 ELSE fsReads
    /\ pc' = "checkErr"
    /\ UNCHANGED <<modified, importsOnly, stdin, disk, archive, fc, ok, err,
                   declarations, i, j, k, stdout, stderr, exitStatus>>

(* main.go:52: the err assigned is the one declared at main.go:44 *)
ParseModified ==
    /\ pc = "parseModified"
    /\ LET r == ParseFile(fc, ParserMode, disk)
       IN  /\ fileAst' = r.ast
           /\ errModified' = r.err
           /\ fsReads' = IF r.fsRead THEN fsReads + 1 ELSE fsReads
    /\ pc' = "checkErr"
    /\ UNCHANGED <<modified, importsOnly, stdin, disk, archive, fc, ok, err,
                   declarations, i, j, k, stdout, stderr, exitStatus>>

(* main.go:54 *)
ParseDisk ==
    /\ pc = "parseDisk"
    /\ LET r == ParseFile(NilSrc, ParserMode, disk)
       IN  /\ fileAst' = r.ast
           /\ err' = r.err
           /\ fsReads' = IF r.fsRead THEN fsReads + 1 ELSE fsReads
    /\ pc' = "checkErr"
    /\ UNCHANGED <<modified, importsOnly, stdin, disk, archive, fc, ok, errModified,
                   declarations, i, j, k, stdout, stderr, exitStatus>>

(* main.go:57-59 *)
CheckErr ==
    /\ pc = "checkErr"
    /\ stderr' = IF err THEN reportError(stderr, "could not parse file " \o file)
                 ELSE stderr
    /\ pc' = "range"
    /\ UNCHANGED <<modified, importsOnly, stdin, disk, archive, fc, ok, fileAst, err,
                   errModified, declarations, i, j, k, stdout, exitStatus, fsReads>>

(* main.go:61-63: fileAst.Decls of a nil fileAst is a nil dereference *)
Range ==
    /\ pc = "range"
    /\ IF fileAst.nil
       THEN Panic /\ UNCHANGED <<declarations, i>>
       ELSE /\ declarations' = <<>>
            /\ i' = 1
            /\ pc' = "decl"
            /\ UNCHANGED exitStatus
    /\ UNCHANGED <<modified, importsOnly, stdin, disk, archive, fc, ok, fileAst, err,
                   errModified, j, k, stdout, stderr, fsReads>>

(* main.go:63-78, 119-122: one top-level declaration *)
DeclStep ==
    /\ pc = "decl"
    /\ i <= Len(fileAst.Decls)
    /\ LET decl == fileAst.Decls[i]
       IN  CASE decl.k = "FuncDecl" ->
                  LET r == getReceiverType(decl)
                  IN  IF r.panics
                      THEN Panic /\ UNCHANGED <<declarations, i, j, stderr>>
                      ELSE /\ stderr' = IF r.failed
                                        THEN reportError(stderr, "failed to parse receiver type")
                                        ELSE stderr
                           /\ declarations' =
                                append(declarations,
                                       Declaration(decl.Name, "function", r.text,
                                                   decl.Pos, decl.End, NoChildren))
                           /\ i' = i + 1
                           /\ UNCHANGED <<pc, j, exitStatus>>
             [] decl.k = "GenDecl" ->
                  /\ j' = 1
                  /\ pc' = "spec"
                  /\ UNCHANGED <<declarations, i, stderr, exitStatus>>
             [] OTHER ->
                  /\ stderr' = reportError(stderr, "unknown declaration")
                  /\ i' = i + 1
                  /\ UNCHANGED <<pc, declarations, j, exitStatus>>
    /\ UNCHANGED <<modified, importsOnly, stdin, disk, archive, fc, ok, fileAst, err,
                   errModified, k, stdout, fsReads>>

(* main.go:79-100, 115-118: one spec of a grouped declaration.  go/ast has *)
(* no spec but the three, so the default case is never taken.              *)
SpecStep ==
    /\ pc = "spec"
    /\ LET decl == fileAst.Decls[i]
       IN  IF j > Len(decl.Specs)
           THEN /\ i' = i + 1
                /\ pc' = "decl"
                /\ UNCHANGED <<declarations, j, k, stderr>>
           ELSE LET spec == decl.Specs[j]
                IN  CASE spec.k = "ImportSpec" ->
                           /\ declarations' =
                                append(declarations,
                                       Declaration(spec.Label, "import", "",
                                                   spec.Pos, spec.End, NoChildren))
                           /\ j' = j + 1
                           /\ UNCHANGED <<pc, i, k, stderr>>
                      [] spec.k = "TypeSpec" ->
                           /\ declarations' =
                                append(declarations,
                                       Declaration(spec.Label, "type", "",
                                                   spec.Pos, spec.End, NoChildren))
                           /\ j' = j + 1
                           /\ UNCHANGED <<pc, i, k, stderr>>
                      [] spec.k = "ValueSpec" ->
                           /\ k' = 1
                           /\ pc' = "name"
                           /\ UNCHANGED <<declarations, i, j, stderr>>
                      [] OTHER ->
                           /\ stderr' = reportError(stderr, "unknown token type: " \o decl.Tok)
                           /\ j' = j + 1
                           /\ UNCHANGED <<pc, declarations, i, k>>
    /\ UNCHANGED <<modified, importsOnly, stdin, disk, archive, fc, ok, fileAst, err,
                   errModified, stdout, exitStatus, fsReads>>

(* main.go:101-114: one identifier of a value spec *)
NameStep ==
    /\ pc = "name"
    /\ LET decl == fileAst.Decls[i]
           spec == decl.Specs[j]
       IN  IF k > Len(rangeNames(spec))
           THEN /\ j' = j + 1
                /\ pc' = "spec"
                /\ UNCHANGED <<declarations, k>>
           ELSE LET id == rangeNames(spec)[k]
                    varOrConst == IF decl.Tok = "const" THEN "constant" ELSE "variable"
                IN  /\ declarations' =
                         append(declarations,
                                Declaration(id.Name, varOrConst, "", id.NamePos,
                                            id.NamePos + Len(id.Name), NoChildren))
                    /\ k' = k + 1
                    /\ UNCHANGED <<pc, j>>
    /\ UNCHANGED <<modified, importsOnly, stdin, disk, archive, fc, ok, fileAst, err,
                   errModified, i, stdout, stderr, exitStatus, fsReads>>

(* main.go:124-134: the outline is printed and main returns *)
PrintOutline ==
    /\ pc = "decl"
    /\ i > Len(fileAst.Decls)
    /\ LET pkg == <<Declaration(fileAst.Name, "package", "", FilePos(fileAst),
                                FileEnd(fileAst), declarations)>>
       IN  stdout' = Append(stdout, pkg)
    /\ pc' = "done"
    /\ exitStatus' = <<ExitOK>>
    /\ UNCHANGED <<modified, importsOnly, stdin, disk, archive, fc, ok, fileAst, err,
                   errModified, declarations, i, j, k, stderr, fsReads>>

Next ==
    \/ Start
    \/ ReadArchive
    \/ Lookup
    \/ ParseModified
    \/ ParseDisk
    \/ CheckErr
    \/ Range
    \/ DeclStep
    \/ SpecStep
    \/ NameStep
    \/ PrintOutline


---------------------------------------------------------------------------
(* The inputs of a run.                                                    *)

Idents == <<"a", "b", "c", "d">>
TypeNames == <<"T", "U", "V", "W">>
ImportPaths == <<"\"fmt\"", "\"os\"", "\"io\"", "\"net\"">>
Cyc(seq, n) == seq[((n - 1) % Len(seq)) + 1]

ImportSpecs(s) == [m \in 1..s |-> [k |-> "import", label |-> Cyc(ImportPaths, m), names |-> <<>>]]
TypeSpecs(s) == [m \in 1..s |-> [k |-> "type", label |-> Cyc(TypeNames, m), names |-> <<>>]]
ValueSpecs(s, n) ==
    [m \in 1..s |-> [k |-> "value", label |-> "", names |-> [x \in 1..n |-> Cyc(Idents, x)]]]

Field(name, star) == [name |-> name, star |-> star, base |-> "Foo"]
Recvs ==
    { NoRecv,
      [present |-> TRUE, list |-> <<>>],
      [present |-> TRUE, list |-> <<Field("r", FALSE)>>],
      [present |-> TRUE, list |-> <<Field("r", TRUE)>>],
      [present |-> TRUE, list |-> <<Field("", TRUE)>>] }

ImportItems == { GenItem("import", ImportSpecs(s)) : s \in 1..MaxSpecs }
OtherItems ==
    { FuncItem("Bar", r) : r \in Recvs }
    \cup { GenItem("type", TypeSpecs(s)) : s \in 1..MaxSpecs }
    \cup { GenItem("var", ValueSpecs(s, n)) : s \in 1..MaxSpecs, n \in 1..MaxNames }
    \cup { GenItem("const", ValueSpecs(s, 1)) : s \in 1..MaxSpecs }
    \cup { BadItem }

(* Import declarations come before the other declarations. *)
ItemSeqs ==
    UNION { { a \o b : a \in [1..m -> ImportItems], b \in [1..(n - m) -> OtherItems] }
            : <<m, n>> \in { <<m, n>> \in (0..MaxDecls) \X (0..MaxDecls) : m <= n } }

Source(lead, items, trail) ==
    [lead |-> lead, pkg |-> TRUE, name |-> "main", items |-> items, trail |-> trail]

(* Files without text before the package clause, ending with a newline. *)
PlainSources == { Source(0, items, 1) : items \in ItemSeqs }

(* A license header of HeaderLen bytes before the package clause or not,   *)
(* bytes after the last declaration or not.                                *)
HeaderLen == 3
FewItemSeqs ==
    { <<>>,
      <<FuncItem("Bar", [present |-> TRUE, list |-> <<Field("r", TRUE)>>])>>,
      <<GenItem("import", ImportSpecs(1)), FuncItem("Bar", NoRecv)>>,
      <<GenItem("var", ValueSpecs(1, 1)), BadItem>>,
      <<BadItem, GenItem("type", TypeSpecs(1))>> }
FewSources ==
    { Source(lead, items, trail) :
        lead \in {0, HeaderLen}, items \in FewItemSeqs, trail \in {0, 1} }
    \cup { EmptySrc }

OnDisk(src) == [exists |-> TRUE, content |-> src]
Missing == [exists |-> FALSE, content |-> EmptySrc]
NoArchive == [corrupt |-> FALSE, entries |-> NilArchive]

Archives ==
    { [corrupt |-> TRUE, entries |-> NilArchive], NoArchive }
    \cup { [corrupt |-> FALSE, entries |-> [p \in {otherPath} |-> Source(0, <<>>, 1)]] }
    \cup { [corrupt |-> FALSE, entries |-> [p \in {file} |-> src]] : src \in FewSources }
    \cup { [corrupt |-> FALSE,
            entries |-> [p \in {file, otherPath} |-> IF p = file THEN src ELSE EmptySrc]]
           : src \in FewSources }

(* What the editor last saved, when the buffer is sent on standard input. *)
SavedDisks ==
    { Missing, OnDisk(Source(0, <<FuncItem("Saved", NoRecv)>>, 1)) }

(* Either the flags and the environment vary over a few files, or the file *)
(* varies and is read from the filesystem in full.                         *)
Init ==
    /\ \/ /\ modified = TRUE
          /\ importsOnly \in BOOLEAN
          /\ stdin \in Archives
          /\ disk \in SavedDisks
       \/ /\ modified = FALSE
          /\ importsOnly \in BOOLEAN
          /\ stdin = NoArchive
          /\ disk \in { Missing } \cup { OnDisk(src) : src \in FewSources }
       \/ /\ modified = FALSE
          /\ importsOnly = FALSE
          /\ stdin = NoArchive
          /\ disk \in { OnDisk(src) : src \in PlainSources }
    /\ pc = "start"
    /\ archive = NilArchive
    /\ fc = Bytes(EmptySrc)
    /\ ok = FALSE
    /\ fileAst = NilFile
    /\ err = FALSE
    /\ errModified = FALSE
    /\ declarations = <<>>
    /\ i = 0 /\ j = 0 /\ k = 0
    /\ stdout = <<>>
    /\ stderr = <<>>
    /\ exitStatus = Running
    /\ fsReads = 0

Spec == Init /\ [][Next]_vars


---------------------------------------------------------------------------
(* What the claims speak of.                                               *)

Ended == exitStatus # Running
Printed == stdout # <<>>
Root == stdout[1][1]

(* main has passed the call of parser.ParseFile and the check after it. *)
AfterCheck == pc \in {"range", "decl", "spec", "name", "done", "panic"}
AfterParse == pc = "checkErr" \/ AfterCheck

(* The error parser.ParseFile returned. *)
ParseError == IF modified THEN errModified ELSE err
ParseFailed == AfterParse /\ ParseError
ParsedOK == AfterParse /\ ~ParseError

OverlayMiss == modified /\ ~stdin.corrupt /\ file \notin DOMAIN stdin.entries
OverlayHit == modified /\ ~stdin.corrupt /\ file \in DOMAIN stdin.entries

Reported(msg) == \E n \in 1..Len(stderr) : stderr[n] = "error: " \o msg

(* The text main parses. *)
Text == IF modified
        THEN IF OverlayHit THEN stdin.entries[file] ELSE EmptySrc
        ELSE disk.content

(* C1: in -modified mode, when the archive has no entry for the -f path,   *)
(* the run reports the miss and nothing is ever written to standard        *)
(* output.                                                                 *)
C1_OverlayMissNoOutput ==
    OverlayMiss =>
        /\ stdout = <<>>
        /\ Ended => Reported("couldn't find " \o file \o " in archive")

(* C2: when the parser returns an error, in either mode, the run ends at   *)
(* once: the declaration loop does not run on the partial tree and no      *)
(* outline is written to standard output.                                  *)
C2_ParseFailureTerminates ==
    ParseFailed => pc \notin {"decl", "spec", "name", "done"} /\ stdout = <<>>

(* C3: a top-level declaration that is neither a function nor a grouped    *)
(* declaration (or a spec of unknown kind) aborts the run: no outline with *)
(* the other declarations is ever printed.                                 *)
C3_ClassificationFailureNoOutput ==
    (~fileAst.nil /\ \E n \in 1..Len(fileAst.Decls) :
        \/ fileAst.Decls[n].k \notin {"FuncDecl", "GenDecl"}
        \/ \E m \in 1..Len(fileAst.Decls[n].Specs) :
              fileAst.Decls[n].Specs[m].k \notin {"ImportSpec", "TypeSpec", "ValueSpec"})
    => stdout = <<>>

(* C4: a run in which an error occurred never ends with the exit status of *)
(* success.                                                                *)
C4_ErrorMeansFailureStatus ==
    (Ended /\ (stderr # <<>> \/ ParseFailed)) => exitStatus # <<ExitOK>>

(* C5: every error of a run is reported as a line "error: <message>" on    *)
(* standard error; a source found in the overlay that fails to parse is    *)
(* reported as a parse failure in default mode is.                         *)
C5_ParseFailureReported ==
    (AfterCheck /\ ParseError) => Reported("could not parse file " \o file)


(* The declarations ParseFile was asked to parse. *)
TopDecls == fileAst.Decls

(* Where the children of the root come from: <<a, 0, 0>> the function at   *)
(* Decls[a]; <<a, b, 0>> the import or type spec b of Decls[a];            *)
(* <<a, b, c>> the identifier c of the value spec b of Decls[a].           *)
Origins ==
    { <<a, 0, 0>> : a \in { a \in 1..Len(TopDecls) : TopDecls[a].k = "FuncDecl" } }
    \cup { <<t[1], t[2], 0>> :
             t \in { t \in (1..Len(TopDecls)) \X (1..MaxSpecs) :
                       /\ t[2] <= Len(TopDecls[t[1]].Specs)
                       /\ TopDecls[t[1]].Specs[t[2]].k \in {"ImportSpec", "TypeSpec"} } }
    \cup { t \in (1..Len(TopDecls)) \X (1..MaxSpecs) \X (1..MaxNames) :
             /\ t[2] <= Len(TopDecls[t[1]].Specs)
             /\ TopDecls[t[1]].Specs[t[2]].k = "ValueSpec"
             /\ t[3] <= Len(TopDecls[t[1]].Specs[t[2]].Names) }

OriginPos(o) ==
    IF o[2] = 0 THEN TopDecls[o[1]].Pos
    ELSE IF o[3] = 0 THEN TopDecls[o[1]].Specs[o[2]].Pos
    ELSE TopDecls[o[1]].Specs[o[2]].Names[o[3]].NamePos

(* The origin of the node at a position; no two origins share one. *)
OriginAt(pos) == CHOOSE o \in Origins : OriginPos(o) = pos

Before(o1, o2) ==
    \/ o1[1] < o2[1]
    \/ o1[1] = o2[1] /\ o1[2] < o2[2]
    \/ o1[1] = o2[1] /\ o1[2] = o2[2] /\ o1[3] < o2[3]

(* C6: the root of the outline of a successfully parsed file has as many   *)
(* direct children as the file has top-level functions and methods, import *)
(* specs, type specs and identifiers of value specs together.              *)
C6_ChildCount ==
    (Printed /\ ParsedOK) => Len(Root.Children) = Cardinality(Origins)

C6_Witness ==
    /\ Printed /\ ParsedOK
    /\ Len(Root.Children) >= 3
    /\ \E o \in Origins : o[3] = 2
    /\ \E o \in Origins : o[2] = 0

(* C7: the children of the root are in the order of the file: the child of *)
(* an earlier declaration first, the specs of a group in their order, the  *)
(* identifiers of a value spec from left to right.  (Each child is before  *)
(* the next one, and Before is transitive.)                                *)
C7_ChildOrder ==
    Printed =>
        /\ \A p \in 1..Len(Root.Children) :
              \E o \in Origins : OriginPos(o) = Root.Children[p].Start
        /\ \A p \in 1..(Len(Root.Children) - 1) :
              Before(OriginAt(Root.Children[p].Start), OriginAt(Root.Children[p + 1].Start))

C7_Witness ==
    /\ Printed /\ ParsedOK
    /\ \E o \in Origins : o[1] = 2
    /\ \E o \in Origins : o[1] = 1 /\ o[2] = 2 /\ o[3] = 2
    /\ Len(Root.Children) >= 5

(* The nodes of what was printed: the root and its children. *)
Nodes == IF Printed THEN {Root} \cup { Root.Children[p] : p \in 1..Len(Root.Children) }
         ELSE {}

(* `json:"receiverType,omitempty"` (main.go:20) *)
HasReceiverType(n) == n.ReceiverType # ""

(* The methods among the top-level declarations. *)
Methods == { a \in 1..Len(TopDecls) : TopDecls[a].k = "FuncDecl" /\ ~TopDecls[a].Recv.nil }

(* C8: a node has a receiverType exactly if it is a function whose         *)
(* declaration has a receiver clause, and then it is the text of the       *)
(* receiver's type alone: the pointer marker with it, the name of the      *)
(* receiver variable not.                                                  *)
C8_ReceiverType ==
    \A n \in Nodes :
       /\ HasReceiverType(n) <=>
             (n.Type = "function" /\ \E a \in Methods : TopDecls[a].Pos = n.Start)
       /\ \A a \in Methods :
             (n.Type = "function" /\ TopDecls[a].Pos = n.Start) =>
                LET T == TopDecls[a].Recv.List[1].Type
                IN  n.ReceiverType = (IF T.star THEN "*" ELSE "") \o T.base

C8_Witness ==
    /\ Printed
    /\ \E p, q \in 1..Len(Root.Children) :
          /\ Root.Children[p].ReceiverType = "*Foo"
          /\ \E a \in Methods : /\ TopDecls[a].Pos = Root.Children[p].Start
                                /\ TopDecls[a].Recv.List[1].Names = <<"r">>
          /\ Root.Children[q].Type = "function"
          /\ ~HasReceiverType(Root.Children[q])

C10_OverlayOnly ==
    modified =>
        /\ fsReads = 0
        /\ AfterParse =>
              fileAst = ParseFile(Bytes(IF OverlayHit THEN stdin.entries[file] ELSE EmptySrc),
                                  ParserMode, Missing).ast

C10_Witness ==
    /\ Printed /\ OverlayHit
    /\ disk.exists /\ disk.content # stdin.entries[file]
    /\ Root.Label = "main"
    /\ \E p \in 1..Len(Root.Children) : Root.Children[p].Label = "Bar"

=============================================================================
